---- MODULE Spec2Model ----
(***************************************************************************)
(* A model of linc-convert's pyramid and compositing code:                 *)
(*   linc_convert/modalities/psoct/stacking.py  (convert, generate_pyramid,*)
(*       write_ome_metadata, niftizarr_write_header)                       *)
(*   linc_convert/modalities/df/multi_slice.py  (convert)                  *)
(* Arrays are functions from index tuples (0-based, as in numpy) to a      *)
(* record [n, v]: n counts the writes the element received, v is the set   *)
(* of source indices whose values the last write combined ({} = fill).     *)
(* Physical sizes are exact rationals [num, den].                          *)
(***************************************************************************)
EXTENDS Integers, Sequences, FiniteSets, TLC

\* ------------------------------------------------------------------ bounds
MaxExt == 4
MaxLoad == 4
MaxChunk == 2
MaxLevels == 2
MaxStackExt == 3
MaxStackLoad == 3
MaxSliceExt == 3
MaxSliceLoad == 3
MaxSlices == 2
MaxRes == 2
MaxMetaExt == 3
MaxMetaLevels == 2
\* default of generate_pyramid's max_load parameter
DefaultMaxLoad == 512
\* default of generate_pyramid's ndim parameter
DefaultNdim == 3

\* ----------------------------------------------------------------- helpers
None == <<>>
Some(x) == <<x>>
Min(a, b) == IF a <= b THEN a ELSE b
Max(a, b) == IF a >= b THEN a ELSE b
RECURSIVE Pow(_, _)
Pow(b, e) == IF e <= 0 THEN 1 ELSE b * Pow(b, e - 1)
RECURSIVE Prod(_)
Prod(s) == IF Len(s) = 0 THEN 1 ELSE Head(s) * Prod(Tail(s))
LastN(s, k) == SubSeq(s, Len(s) - k + 1, Len(s))
FirstN(s, k) == SubSeq(s, 1, k)

\* linc_convert.utils.math.ceildiv: ceiling division of positive integers
ceildiv(x, y) == (x + y - 1) \div y
\* linc_convert.utils.math.floordiv
floordiv(x, y) == x \div y

\* a region is a per-axis half-open interval [lo[a], hi[a]); Box is its index tuples
Box(lo, hi) ==
    IF Len(lo) = 3
    THEN {<<a, b, c>> : a \in lo[1]..(hi[1] - 1), b \in lo[2]..(hi[2] - 1),
                        c \in lo[3]..(hi[3] - 1)}
    ELSE {<<a, b, c, d>> : a \in lo[1]..(hi[1] - 1), b \in lo[2]..(hi[2] - 1),
                           c \in lo[3]..(hi[3] - 1), d \in lo[4]..(hi[4] - 1)}
\* the index tuples of an array of the given shape
Cells(shape) == Box([a \in 1..Len(shape) |-> 0], shape)
InRegion(c, lo, hi) == \A a \in 1..Len(c) : lo[a] <= c[a] /\ c[a] < hi[a]
Extent(lo, hi) == [a \in 1..Len(lo) |-> Max(hi[a] - lo[a], 0)]
\* a freshly created array: every element holds the fill value
NewArray(shape, chunks) ==
    [shape |-> shape, chunks |-> chunks,
     data |-> [c \in Cells(shape) |-> [n |-> 0, v |-> {}]]]

\* prog: the entry point running; pc: its position; arg: its arguments;
\* loc: its local variables; gp: generate_pyramid's local variables;
\* omz: the levels of the store, level k at omz[k + 1]; attrs: the group's
\* "multiscales" attribute; nifti: the "nifti" entry; err: the exception raised
VARIABLES prog, pc, arg, loc, gp, omz, attrs, nifti, err
vars == <<prog, pc, arg, loc, gp, omz, attrs, nifti, err>>

\* ------------------------------------------------------- generate_pyramid
\* line 456: the declared extent of the next level along one axis
NextExtentCeil(x) == ceildiv(x, 2)
NextExtent(x) == Max(1, x \div 2)
NextShape(shape) == [a \in 1..Len(shape) |-> NextExtent(shape[a])]

\* lines 459-463: the loop's break condition, evaluated on the shape just computed
StopNow(levels, level, shape, chunk_size) ==
    IF levels = None
    THEN \A a \in 1..Len(shape) : shape[a] <= LastN(chunk_size, Len(shape))[a]
    ELSE level > levels[1]

\* line 472
GridShape(prev_shape, max_load) ==
    [a \in 1..Len(prev_shape) |-> ceildiv(prev_shape[a], max_load)]
\* line 473: itertools.product order, last axis fastest
ChunkIndex(t, grid) ==
    [a \in 1..Len(grid) |-> (t \div Prod(SubSeq(grid, a + 1, Len(grid)))) % grid[a]]

\* lines 477-480: the region read from the previous level
ReadLo(ci, max_load) == [a \in 1..Len(ci) |-> ci[a] * max_load]
ReadHi(ci, max_load, prev_shape) ==
    [a \in 1..Len(ci) |-> Min((ci[a] + 1) * max_load, prev_shape[a])]
\* lines 484-486: drop the last sample of an odd extent (an extent of 1 is kept)
Crop(x) == IF x = 1 THEN 0 ELSE x % 2
\* line 502: the extent of the reduced block
SmallerExtent(n) == Max(n \div 2, 1)
\* line 492: the window along one axis
WindowExtent(n) == Min(n, 2)
\* lines 511-514: the region of the new level the block is written to
WriteLo(ci, max_load) == [a \in 1..Len(ci) |-> (ci[a] * max_load) \div 2]
WriteHi(ci, max_load, shape) ==
    [a \in 1..Len(ci) |-> Min(((ci[a] + 1) * max_load) \div 2, shape[a])]

\* lines 483-508: the samples of the previous level that the block element
\* written to cell c of the new level was reduced from
WindowOf(c, nb, rlo, wlo, win) ==
    LET plo == [a \in 1..Len(c) |->
                   IF a <= nb THEN c[a]
                   ELSE rlo[a - nb] + (c[a] - wlo[a - nb]) * win[a - nb]]
        phi == [a \in 1..Len(c) |->
                   IF a <= nb THEN c[a] + 1 ELSE plo[a] + win[a - nb]]
    IN Box(plo, phi)

\* line 473: the for loop ends with the last chunk index of the grid
LastTileIsFirst(t, grid) == TRUE
LastTile(t, grid) == t + 1 = Prod(grid)

\* line 468: create_dataset(str(level), shape=shape, **opt): the new level is
\* declared with the spatial shape, without the batch axes
NewLevelShapeWithBatch(batch, shape) == batch \o shape
NewLevelShape(batch, shape) == shape
\* lines 502-503 and 508: the shape of the reduced block
BlockShape(batch, smaller) == batch \o smaller

\* lines 430-450: the locals before the loop
GPStart(levels, max_load, ret) ==
    LET shape == omz[1].shape
        nb == Len(shape) - DefaultNdim
    IN [levels |-> levels, max_load |-> max_load, ret |-> ret,
        chunk_size |-> omz[1].chunks, level |-> 0,
        batch |-> FirstN(shape, nb), shape |-> LastN(shape, DefaultNdim),
        prev_shape |-> LastN(shape, DefaultNdim),
        allshapes |-> <<LastN(shape, DefaultNdim)>>, t |-> 0]

\* lines 452-468: one pass through the head of the while loop
GPLoop ==
    /\ pc = "gp_loop"
    /\ LET level == gp.level + 1
           shape == NextShape(gp.shape)
           g == [gp EXCEPT !.level = level, !.prev_shape = gp.shape,
                           !.shape = shape, !.t = 0]
       IN IF StopNow(gp.levels, level, shape, gp.chunk_size)
          THEN /\ gp' = g
               /\ pc' = "gp_return"
               /\ omz' = omz
          ELSE /\ gp' = [g EXCEPT !.allshapes = Append(gp.allshapes, shape)]
               /\ omz' = Append(omz, NewArray(NewLevelShape(gp.batch, shape), None))
               /\ pc' = "gp_tile"
    /\ UNCHANGED <<prog, arg, loc, attrs, nifti, err>>

\* lines 473-516: one sub-tile: read, crop, reduce, write
GPTile ==
    /\ pc = "gp_tile"
    /\ LET grid == GridShape(gp.prev_shape, gp.max_load)
           ci == ChunkIndex(gp.t, grid)
           rlo == ReadLo(ci, gp.max_load)
           rhi == ReadHi(ci, gp.max_load, gp.prev_shape)
           patch == [a \in 1..DefaultNdim |->
                        (rhi[a] - rlo[a]) - Crop(rhi[a] - rlo[a])]
           win == [a \in 1..DefaultNdim |-> WindowExtent(patch[a])]
           smaller == [a \in 1..DefaultNdim |-> SmallerExtent(patch[a])]
           wlo == WriteLo(ci, gp.max_load)
           whi == WriteHi(ci, gp.max_load, gp.shape)
           lev == gp.level + 1
           rank == Len(omz[lev].shape)
           blo == [a \in 1..(rank - DefaultNdim) |-> 0] \o wlo
           bhi == FirstN(omz[lev].shape, rank - DefaultNdim) \o whi
       IN IF Extent(blo, bhi) # BlockShape(gp.batch, smaller)
          THEN \* the store rejects a block whose shape differs from the selection
               /\ err' = "ValueError"
               /\ pc' = "raised"
               /\ UNCHANGED <<omz, gp>>
          ELSE /\ omz' = [omz EXCEPT ![lev].data =
                    [c \in DOMAIN omz[lev].data |->
                        IF InRegion(c, blo, bhi)
                        THEN [n |-> omz[lev].data[c].n + 1,
                              v |-> WindowOf(c, rank - DefaultNdim, rlo, wlo, win)]
                        ELSE omz[lev].data[c]]]
               /\ gp' = [gp EXCEPT !.t = gp.t + 1]
               /\ pc' = IF LastTile(gp.t, grid) THEN "gp_loop" ELSE "gp_tile"
               /\ err' = err
    /\ UNCHANGED <<prog, arg, loc, attrs, nifti>>

\* line 520
GPReturn ==
    /\ pc = "gp_return"
    /\ pc' = gp.ret
    /\ UNCHANGED <<prog, arg, loc, gp, omz, attrs, nifti, err>>

\* an existing level 0, as generate_pyramid finds it: fully written
Level0(shape, chunk) ==
    [shape |-> shape,
     chunks |-> [a \in 1..Len(shape) |-> Min(shape[a], chunk)],
     data |-> [c \in Cells(shape) |-> [n |-> 1, v |-> {c}]]]

InputShapes ==
    [1..3 -> 1..MaxExt] \cup {<<2>> \o s : s \in [1..3 -> 1..2]}

InitGP ==
    /\ prog = "generate_pyramid"
    /\ \E shape \in InputShapes, chunk \in 1..MaxChunk :
          omz = <<Level0(shape, chunk)>>
    /\ \E levels \in {None} \cup {Some(k) : k \in 0..MaxLevels},
          max_load \in 1..MaxLoad :
          /\ arg = [levels |-> levels, max_load |-> max_load]
          /\ gp = GPStart(levels, max_load, "done")
    /\ loc = None
    /\ attrs = None
    /\ nifti = None
    /\ err = None
    /\ pc = "gp_loop"

NextGP == GPLoop \/ GPTile \/ GPReturn

SpecGP == InitGP /\ [][NextGP]_vars

\* ------------------------------------------------------- stacking convert
\* exact rationals
Rat(n, d) == [num |-> n, den |-> d]
RatEq(x, y) == x.num * y.den = y.num * x.den
\* int(math.ceil(math.log2(x))) for x >= 1
CeilLog2(x) == CHOOSE k \in 0..16 : Pow(2, k) >= x /\ (k = 0 \/ Pow(2, k - 1) < x)
SetMin(S) == CHOOSE m \in S : \A x \in S : m <= x

\* lines 142-146
NbLevels(shape, no_pool, max_load, max_levels) ==
    Min(Min(SetMin({CeilLog2(shape[a]) : a \in {b \in 1..Len(shape) : Some(b - 1) # no_pool}}),
            CeilLog2(max_load)),
        max_levels)

\* lines 137-140: the input chunk along the first three axes, and the grid
InpChunk(shape, max_load) == [a \in 1..Len(shape) |-> Min(shape[a], max_load)]
\* line 153: product(range(ni), range(nj), range(nk)), k fastest; the result
\* is <<k, j, i>>, the tile index along axes 0, 1, 2
CopyIndex(t, nk, nj, ni) == <<t % nk, (t \div nk) % nj, t \div (nk * nj)>>
\* lines 154-158: the region read from the input (numpy clips the slice)
CopyReadLo(kji, inp_chunk, shape) ==
    [a \in 1..Len(shape) |-> IF a <= 3 THEN kji[a] * inp_chunk[a] ELSE 0]
CopyReadHi(kji, inp_chunk, shape) ==
    [a \in 1..Len(shape) |->
        IF a <= 3 THEN Min((kji[a] + 1) * inp_chunk[a], shape[a]) ELSE shape[a]]
\* lines 169-173: the region of level 0 written
CopyWriteLoSwapped(kji, inp_chunk, shape) ==
    [a \in 1..Len(shape) |-> IF a <= 3 THEN kji[4 - a] * inp_chunk[a] ELSE 0]
CopyWriteLo(kji, inp_chunk, shape) ==
    [a \in 1..Len(shape) |-> IF a <= 3 THEN kji[a] * inp_chunk[a] ELSE 0]

\* lines 204-212 and 213-220: the transforms recorded for level n
StackScale(n, no_pool, vx) ==
    [a \in 1..3 |-> Rat((IF no_pool = Some(a - 1) THEN 1 ELSE Pow(2, n)) * vx[a], 1)]
StackTranslationWhole(n, no_pool, vx) ==
    [a \in 1..3 |-> Rat((IF no_pool = Some(a - 1) THEN 0 ELSE Pow(2, n) - 1) * vx[a], 1)]
StackTranslation(n, no_pool, vx) ==
    [a \in 1..3 |-> Rat((IF no_pool = Some(a - 1) THEN 0 ELSE Pow(2, n) - 1) * vx[a], 2)]

\* lines 732-735 of niftizarr_write_header: the header class selected
NiftiHeaderClass(shape, nifti_version) ==
    IF (\A a \in 1..Len(shape) : shape[a] < 32768) \/ nifti_version = 1
    THEN "Nifti1Header" ELSE "Nifti2Header"
\* nibabel: the byte length of a header's structarr
HeaderBytes(class) == IF class = "Nifti1Header" THEN 348 ELSE 540
\* nibabel: the largest extent a header's dim field holds
DimFits(class, shape) ==
    class = "Nifti2Header" \/ \A a \in 1..Len(shape) : shape[a] <= 32767
\* lines 732-738: the header instance used, and whether set_data_shape accepts
\* the shape; a pre-instantiated header takes precedence over the class selected
WriteHeader(shape, nifti_version, header) ==
    LET class == IF header # None THEN header[1]
                 ELSE NiftiHeaderClass(shape, nifti_version)
    IN [selected |-> NiftiHeaderClass(shape, nifti_version), class |-> class,
        fits |-> DimFits(class, shape)]
\* line 739: header.set_data_dtype accepts the dtypes that have a NIfTI code
DtypeSupported(dtype) == dtype \in {"|u1", "<u2", "<i2", "<f4", "<f8"}
\* line 755, create_dataset(name, data=header, shape=...): zarr builds the
\* array from data and takes its shape from data, whatever shape is passed
ArrayFromDataDeclared(nbytes, shape) == shape
ArrayFromData(nbytes, shape) == <<nbytes>>
\* lines 737-755: the "nifti" entry created from the header bytes; a new
\* header carries the single-file magic of its class
NiftiEntryPairMagic(class) ==
    [class |-> class,
     shape |-> ArrayFromData(HeaderBytes(class), <<HeaderBytes(class)>>),
     chunks |-> <<HeaderBytes(class)>>, compressor |-> None,
     magic |-> IF class = "Nifti1Header" THEN "ni1" ELSE "ni2"]
NiftiEntry(class) ==
    [class |-> class,
     shape |-> ArrayFromData(HeaderBytes(class), <<HeaderBytes(class)>>),
     chunks |-> <<HeaderBytes(class)>>, compressor |-> None,
     magic |-> IF class = "Nifti1Header" THEN "n+1" ELSE "n+2"]

\* lines 102-118: the sidecar JSON is written when a metadata file is given
STJson ==
    /\ pc = "st_json"
    /\ loc' = [loc EXCEPT !.json = (arg.meta # None),
                          !.vx = IF arg.meta # None THEN arg.meta[1] ELSE <<1, 1, 1>>]
    /\ pc' = "st_group"
    /\ UNCHANGED <<prog, arg, gp, omz, attrs, nifti, err>>

\* lines 120-127: the group is created with overwrite=True, then the input is checked
STGroup ==
    /\ pc = "st_group"
    /\ omz' = <<>>
    /\ attrs' = None
    /\ nifti' = None
    /\ IF ~arg.inp.is_array
       THEN pc' = "raised" /\ err' = "Input is not a numpy array"
       ELSE IF Len(arg.inp.shape) < 3
       THEN pc' = "raised" /\ err' = "Input array is not 3d"
       ELSE pc' = "st_create" /\ err' = err
    /\ UNCHANGED <<prog, arg, loc, gp>>

\* lines 128-150: chunking, the number of levels, and level 0
STCreate ==
    /\ pc = "st_create"
    /\ LET shape == arg.inp.shape
           inp_chunk == InpChunk(shape, arg.max_load)
       IN /\ loc' = [loc EXCEPT
                !.inp_chunk = inp_chunk,
                !.nk = ceildiv(shape[1], inp_chunk[1]),
                !.nj = ceildiv(shape[2], inp_chunk[2]),
                !.ni = ceildiv(shape[3], inp_chunk[3]),
                !.nblevels = NbLevels(shape, arg.no_pool, arg.max_load, arg.max_levels),
                !.t = 0]
          /\ omz' = <<NewArray(shape, [a \in 1..Len(shape) |-> Min(shape[a], arg.chunk)])>>
    /\ pc' = "st_copy"
    /\ UNCHANGED <<prog, arg, gp, attrs, nifti, err>>

\* lines 153-173: one input chunk is loaded and saved
STCopy ==
    /\ pc = "st_copy"
    /\ LET shape == arg.inp.shape
           kji == CopyIndex(loc.t, loc.nk, loc.nj, loc.ni)
           rlo == CopyReadLo(kji, loc.inp_chunk, shape)
           rhi == CopyReadHi(kji, loc.inp_chunk, shape)
           wlo == CopyWriteLo(kji, loc.inp_chunk, shape)
           whi == [a \in 1..Len(shape) |-> wlo[a] + (rhi[a] - rlo[a])]
       IN omz' = [omz EXCEPT ![1].data =
                    [c \in DOMAIN omz[1].data |->
                        IF InRegion(c, wlo, whi)
                        THEN [n |-> omz[1].data[c].n + 1,
                              v |-> {[a \in 1..Len(shape) |-> rlo[a] + (c[a] - wlo[a])]}]
                        ELSE omz[1].data[c]]]
    /\ loc' = [loc EXCEPT !.t = loc.t + 1]
    /\ pc' = IF loc.t + 1 = loc.ni * loc.nj * loc.nk THEN "st_pyramid" ELSE "st_copy"
    /\ UNCHANGED <<prog, arg, gp, attrs, nifti, err>>

\* line 175: generate_pyramid(omz, nblevels - 1, mode="mean")
STPyramid ==
    /\ pc = "st_pyramid"
    /\ gp' = GPStart(Some(loc.nblevels - 1), DefaultMaxLoad, "st_attrs")
    /\ pc' = "gp_loop"
    /\ UNCHANGED <<prog, arg, loc, omz, attrs, nifti, err>>

\* lines 179-229: the multiscales attribute
STAttrs ==
    /\ pc = "st_attrs"
    /\ attrs' = [axes |-> <<[name |-> "z", type |-> "space"],
                           [name |-> "y", type |-> "space"],
                           [name |-> "x", type |-> "space"]>>,
                 datasets |->
                    [i \in 1..Max(loc.nblevels, 0) |->
                        [path |-> i - 1,
                         scale |-> StackScale(i - 1, arg.no_pool, loc.vx),
                         translation |-> StackTranslation(i - 1, arg.no_pool, loc.vx)]],
                 type |-> IF arg.no_pool = None THEN "2x2x2mean window"
                          ELSE "2x2mean window"]
    /\ pc' = IF arg.nii THEN "st_nifti" ELSE "done"
    /\ UNCHANGED <<prog, arg, loc, gp, omz, nifti, err>>

\* lines 231-239: niftizarr_write_header(omz, shape, affine, dtype, unit, nifti_version=2)
STNifti ==
    /\ pc = "st_nifti"
    /\ LET shape == [a \in 1..Len(omz[1].shape) |->
                        omz[1].shape[Len(omz[1].shape) + 1 - a]]
           h == WriteHeader(shape, 2, None)
       IN /\ loc' = [loc EXCEPT !.header = h.selected]
          /\ IF ~h.fits
             THEN nifti' = nifti /\ pc' = "raised" /\ err' = "HeaderDataError"
             ELSE IF ~DtypeSupported(arg.inp.dtype)
             THEN /\ nifti' = nifti
                  /\ pc' = "raised"
                  /\ err' = "HeaderDataError: data dtype not supported"
             ELSE nifti' = NiftiEntry(h.class) /\ pc' = "done" /\ err' = err
    /\ UNCHANGED <<prog, arg, gp, omz, attrs>>

\* a store left at the output path by an earlier run
OldStore == <<Level0(<<1, 1, 1>>, 1)>>

StackShapes ==
    [1..3 -> 1..MaxStackExt] \cup {s \o <<2>> : s \in [1..3 -> 1..2]}
\* the inputs: arrays of a dtype NIfTI supports, two arrays of a dtype it does
\* not support (float16), an object that is not an array, a 2-D array
StackInputs ==
    {[is_array |-> TRUE, shape |-> s, dtype |-> "<u2"] : s \in StackShapes}
    \cup {[is_array |-> TRUE, shape |-> s, dtype |-> "<f2"] : s \in {<<2, 2, 2>>, <<3, 3, 3>>}}
    \cup {[is_array |-> FALSE, shape |-> <<>>, dtype |-> ""],
          [is_array |-> TRUE, shape |-> <<2, 2>>, dtype |-> "<u2"]}
\* the pixel size parsed from a metadata file
MetaVx == <<2, 3, 5>>

InitStack ==
    /\ prog = "stacking"
    /\ \E inp \in StackInputs, max_load \in 1..MaxStackLoad, max_levels \in 0..MaxLevels,
          no_pool \in {None, Some(0), Some(1), Some(2)}, nii \in BOOLEAN,
          meta \in {None, Some(MetaVx)} :
          arg = [inp |-> inp, chunk |-> MaxChunk, max_load |-> max_load,
                 max_levels |-> max_levels, no_pool |-> no_pool, nii |-> nii,
                 meta |-> meta]
    /\ loc = [json |-> FALSE, vx |-> None, inp_chunk |-> None, nk |-> 0, nj |-> 0,
              ni |-> 0, nblevels |-> 0, t |-> 0, header |-> None]
    /\ gp = None
    /\ omz = OldStore
    /\ attrs = None
    /\ nifti = None
    /\ err = None
    /\ pc = "st_json"

NextStack ==
    \/ STJson \/ STGroup \/ STCreate \/ STCopy \/ STPyramid \/ STAttrs \/ STNifti
    \/ GPLoop \/ GPTile \/ GPReturn

SpecStack == InitStack /\ [][NextStack]_vars

\* inputs larger than max_load along at least one axis
WideInputs ==
    {[is_array |-> TRUE, shape |-> s, dtype |-> "<u2"] :
        s \in [1..3 -> {MaxStackExt, MaxStackExt + 1}]}

InitStackWide ==
    /\ prog = "stacking"
    /\ \E inp \in WideInputs, max_load \in 1..MaxStackLoad, max_levels \in 0..MaxLevels,
          nii \in BOOLEAN :
          arg = [inp |-> inp, chunk |-> MaxChunk, max_load |-> max_load,
                 max_levels |-> max_levels, no_pool |-> None, nii |-> nii,
                 meta |-> None]
    /\ loc = [json |-> FALSE, vx |-> None, inp_chunk |-> None, nk |-> 0, nj |-> 0,
              ni |-> 0, nblevels |-> 0, t |-> 0, header |-> None]
    /\ gp = None
    /\ omz = OldStore
    /\ attrs = None
    /\ nifti = None
    /\ err = None
    /\ pc = "st_json"

SpecStackWide == InitStackWide /\ [][NextStack]_vars

\* ---------------------------------------------------- multi_slice convert
\* WrappedJ2K(j2k, level).shape, channel first: a JPEG2000 resolution level
\* has the extents ceil(extent / 2^level)
SubdatSize(slice, level) ==
    (IF slice.nch > 0 THEN <<slice.nch>> ELSE <<>>)
    \o <<ceildiv(slice.h, Pow(2, level)), ceildiv(slice.w, Pow(2, level))>>

\* lines 119-134: the canvas and what the slices have in common
MaxOver(S) == CHOOSE m \in S : \A x \in S : m >= x
NewHeight(inp) == MaxOver({0} \cup {inp[i].h : i \in 1..Len(inp)})
NewWidth(inp) == MaxOver({0} \cup {inp[i].w : i \in 1..Len(inp)})
HasChannel(inp) == SetMin({IF inp[i].nch > 0 THEN 1 ELSE 0 : i \in 1..Len(inp)})
NbLevel(inp) == SetMin({inp[i].num_res : i \in 1..Len(inp)})

\* lines 150-151: the shape of a level (new_size[2] is the channel count)
LevelShape(new_size, nslices, level) ==
    <<new_size[3], nslices, ceildiv(new_size[1], Pow(2, level)),
      ceildiv(new_size[2], Pow(2, level))>>

\* lines 174-175: the offset of a slice in the canvas along one axis
OffsetCeil(canvas, sub) == ceildiv(canvas - sub, 2)
Offset(canvas, sub) == floordiv(canvas - sub, 2)

\* lines 178-180: whether the slice is written in one piece
DirectWrite(max_load, sub_h, sub_w) ==
    max_load = None \/ (sub_h < max_load[1] /\ sub_w < max_load[1])

\* lines 185-209: the tiles <<start_x, end_x, start_y, end_y>> of a slice
SliceTiles(max_load, sub_h, sub_w) ==
    {<<i * max_load, Min((i + 1) * max_load, sub_h),
       j * max_load, Min((j + 1) * max_load, sub_w)>> :
        i \in 0..(ceildiv(sub_h, max_load) - 1), j \in 0..(ceildiv(sub_w, max_load) - 1)}

\* lines 181-183 and 200-209: the pieces written for one channel of a slice,
\* each [lo, hi, src]: the region of the level written and the index of the
\* slice's sample that lands on lo
SlicePieces(max_load, channel, idx, x, y, sub_h, sub_w) ==
    IF DirectWrite(max_load, sub_h, sub_w)
    THEN {[lo |-> <<channel, idx, x, y>>,
           hi |-> <<channel + 1, idx + 1, x + sub_h, y + sub_w>>,
           src |-> <<0, 0>>]}
    ELSE {[lo |-> <<channel, idx, x + t[1], y + t[3]>>,
           hi |-> <<channel + 1, idx + 1, x + t[2], y + t[4]>>,
           src |-> <<t[1], t[3]>>] : t \in SliceTiles(max_load[1], sub_h, sub_w)}

\* lines 242-251 and 252-260: the transforms recorded for level n; shape0 and
\* shape are the in-plane shapes (height, width) of level 0 and level n
MSScale(has_channel, shape0, shape, vxw, vxh) ==
    [i \in 1..has_channel |-> Rat(1, 1)]
    \o <<Rat(1, 1), Rat(shape0[1] * vxh, shape[1]), Rat(shape0[1] * vxw, shape[1])>>
MSTranslationZero(has_channel, shape0, shape, vxw, vxh) ==
    [i \in 1..(has_channel + 3) |-> Rat(0, 1)]
MSTranslation(has_channel, shape0, shape, vxw, vxh) ==
    [i \in 1..has_channel |-> Rat(0, 1)]
    \o <<Rat(0, 1), Rat((shape0[1] - shape[1]) * vxh, 2 * shape[1]),
         Rat((shape0[1] - shape[1]) * vxw, 2 * shape[1])>>

\* lines 106-117: the output path, and the group created with overwrite=True
MSOpen ==
    /\ pc = "ms_open"
    /\ loc' = [loc EXCEPT !.nii = arg.nii \/ arg.out_nii]
    /\ omz' = <<>>
    /\ attrs' = None
    /\ nifti' = None
    /\ pc' = "ms_scan"
    /\ UNCHANGED <<prog, arg, gp, err>>

\* lines 119-147: the canvas size, the number of levels, the channel flag
MSScan ==
    /\ pc = "ms_scan"
    /\ LET has_channel == HasChannel(arg.inp)
       IN loc' = [loc EXCEPT
             !.nblevel = NbLevel(arg.inp),
             !.has_channel = has_channel,
             !.dtype_jp2 = arg.inp[Len(arg.inp)].dtype,
             !.new_size = <<NewHeight(arg.inp), NewWidth(arg.inp)>>
                          \o (IF has_channel # 0 THEN <<3>> ELSE <<>>),
             !.level = 0, !.idx = 0]
    /\ pc' = "ms_level"
    /\ UNCHANGED <<prog, arg, gp, omz, attrs, nifti, err>>

\* lines 149-154: the head of the level loop creates the level
MSLevel ==
    /\ pc = "ms_level"
    /\ IF loc.level >= loc.nblevel
       THEN pc' = "ms_attrs" /\ UNCHANGED <<omz, loc, err>>
       ELSE IF Len(loc.new_size) < 3
       THEN \* new_size[2] of a two-element tuple
            pc' = "raised" /\ err' = "IndexError" /\ UNCHANGED <<omz, loc>>
       ELSE /\ omz' = Append(omz,
                  NewArray(LevelShape(loc.new_size, Len(arg.inp), loc.level),
                           <<3, 1, arg.chunk, arg.chunk>>))
            /\ loc' = [loc EXCEPT !.idx = 0]
            /\ pc' = "ms_slice"
            /\ err' = err
    /\ UNCHANGED <<prog, arg, gp, attrs, nifti>>

\* lines 157-211: one slice is attached to the level, channel by channel
MSSlice ==
    /\ pc = "ms_slice"
    /\ LET lev == loc.level + 1
           shape == omz[lev].shape
           slice == arg.inp[loc.idx + 1]
           size == SubdatSize(slice, loc.level)
           sub_h == size[Len(size) - 1]
           sub_w == size[Len(size)]
           x == Offset(shape[3], sub_h)
           y == Offset(shape[4], sub_w)
       IN omz' = [omz EXCEPT ![lev].data =
                    [c \in DOMAIN omz[lev].data |->
                        IF c[2] # loc.idx \/ c[1] > 2 THEN omz[lev].data[c]
                        ELSE
                        LET hit == {q \in SlicePieces(arg.max_load, c[1], loc.idx,
                                                      x, y, sub_h, sub_w) :
                                       InRegion(c, q.lo, q.hi)}
                        IN IF hit = {} THEN omz[lev].data[c]
                           ELSE LET q == CHOOSE r \in hit : TRUE
                                IN [n |-> omz[lev].data[c].n + Cardinality(hit),
                                    v |-> {<<c[1], loc.idx,
                                             q.src[1] + (c[3] - q.lo[3]),
                                             q.src[2] + (c[4] - q.lo[4])>>}]]]
    /\ IF loc.idx + 1 < Len(arg.inp)
       THEN loc' = [loc EXCEPT !.idx = loc.idx + 1] /\ pc' = "ms_slice"
       ELSE loc' = [loc EXCEPT !.level = loc.level + 1] /\ pc' = "ms_level"
    /\ UNCHANGED <<prog, arg, gp, attrs, nifti, err>>

\* lines 213-265: the multiscales attribute
MSAttrs ==
    /\ pc = "ms_attrs"
    /\ attrs' = [axes |-> (IF loc.has_channel # 0
                           THEN <<[name |-> "c", type |-> "channel"]>> ELSE <<>>)
                          \o <<[name |-> "z", type |-> "space"],
                               [name |-> "y", type |-> "distance"],
                               [name |-> "x", type |-> "space"]>>,
                 datasets |->
                    [i \in 1..loc.nblevel |->
                        [path |-> i - 1,
                         scale |-> MSScale(loc.has_channel, LastN(omz[1].shape, 2),
                                           LastN(omz[i].shape, 2), arg.px[1], arg.px[2]),
                         translation |-> MSTranslation(loc.has_channel,
                                           LastN(omz[1].shape, 2),
                                           LastN(omz[i].shape, 2), arg.px[1], arg.px[2])]],
                 type |-> "jpeg2000"]
    /\ pc' = "ms_nifti"
    /\ UNCHANGED <<prog, arg, loc, gp, omz, nifti, err>>

\* lines 267-293: the NIfTI-2 header; the entry is created from the header
\* bytes, with shape=shape passed along
MSNifti ==
    /\ pc = "ms_nifti"
    /\ LET rev == [a \in 1..4 |-> omz[1].shape[5 - a]]
           shape == IF loc.has_channel # 0
                    THEN FirstN(rev, 3) \o <<1>> \o LastN(rev, 1) ELSE rev
       IN nifti' = [class |-> "Nifti2Header",
                    shape |-> ArrayFromData(HeaderBytes("Nifti2Header"), shape),
                    chunks |-> <<HeaderBytes("Nifti2Header")>>,
                    compressor |-> None, magic |-> "n+2"]
    /\ loc' = [loc EXCEPT !.header = "Nifti2Header"]
    /\ pc' = "ms_sidecar"
    /\ UNCHANGED <<prog, arg, gp, omz, attrs, err>>

\* lines 295-309: the sidecar JSON
MSSidecar ==
    /\ pc = "ms_sidecar"
    /\ loc' = [loc EXCEPT !.json = TRUE]
    /\ pc' = "done"
    /\ UNCHANGED <<prog, arg, gp, omz, attrs, nifti, err>>

\* the input lists: the first slice varies in size, channel axis, number of
\* resolutions and dtype; the slices after it are 3-channel slices of one size
FirstSlices ==
    [h : 1..MaxSliceExt, w : 1..MaxSliceExt, nch : {3}, num_res : 1..MaxRes,
     dtype : {"|u1"}]
    \cup [h : 1..MaxSliceExt, w : 1..MaxSliceExt, nch : {0, 4}, num_res : {MaxRes},
          dtype : {"|u1"}]
    \cup [h : 1..MaxSliceExt, w : 1..MaxSliceExt, nch : {3}, num_res : {MaxRes},
          dtype : {"<u2"}]
RestSlices ==
    [h : 1..MaxSliceExt, w : 1..MaxSliceExt, nch : {3}, num_res : {MaxRes},
     dtype : {"|u1"}]
InputLists ==
    {<<f>> \o [i \in 1..k |-> r] :
        f \in FirstSlices, r \in RestSlices, k \in 0..(MaxSlices - 1)}
\* the pixel size <<vxw, vxh>> that get_pixelsize reads from the slices
PixelSizes == {<<2, 3>>}

InitMS ==
    /\ prog = "multi_slice"
    /\ \E inp \in InputLists,
          max_load \in {None} \cup {Some(m) : m \in 2..MaxSliceLoad}, px \in PixelSizes :
          arg = [inp |-> inp, chunk |-> MaxChunk, max_load |-> max_load,
                 nii |-> FALSE, out_nii |-> FALSE, px |-> px]
    /\ loc = [nii |-> FALSE, nblevel |-> 0, has_channel |-> 0, new_size |-> <<>>,
              dtype_jp2 |-> "", level |-> 0, idx |-> 0, header |-> None, json |-> FALSE]
    /\ gp = None
    /\ omz = OldStore
    /\ attrs = None
    /\ nifti = None
    /\ err = None
    /\ pc = "ms_open"

NextMS == MSOpen \/ MSScan \/ MSLevel \/ MSSlice \/ MSAttrs \/ MSNifti \/ MSSidecar

SpecMS == InitMS /\ [][NextMS]_vars

\* ----------------------------------------------------- write_ome_metadata
\* lines 585-591
AxisType(axis) ==
    IF axis \in {"x", "y", "z"} THEN "space" ELSE IF axis = "t" THEN "time" ELSE "channel"
\* line 595
SDim(axes) == Cardinality({i \in 1..Len(axes) : AxisType(axes[i]) = "space"})
\* lines 598-604 and 606-612: a short list is padded on the left with its first
\* element, and the last sdim elements are kept
PadToSDim(l, sdim) ==
    LastN([i \in 1..Max(sdim - Len(l), 0) |-> l[1]] \o l, sdim)
\* a pyramid_aligns element: a window size (an int) or a string
AlignInt(f) == [int |-> TRUE, f |-> f, s |-> ""]
AlignStr(str) == [int |-> FALSE, f |-> 0, s |-> str]
IsEdge(al) == ~al.int /\ al.s = "edge"

\* lines 649-659: the scale of one spatial axis at level n
MetaScale(al, n, shape0, shape, space_scale) ==
    IF al.int THEN Rat(Pow(al.f, n) * space_scale, 1)
    ELSE IF al.s = "edge" THEN Rat(shape0 * space_scale, shape)
    ELSE Rat((shape0 - 1) * space_scale, shape - 1)
\* lines 660-671: the translation of one spatial axis at level n
MetaTranslation(al, n, shape0, shape, space_scale) ==
    IF al.int THEN Rat((Pow(al.f, n) - 1) * space_scale, 2)
    ELSE IF al.s = "edge" THEN Rat((shape0 - shape) * space_scale, 2 * shape)
    ELSE Rat(0, 2)

\* lines 567-583: the shapes of the levels found in the store
WMRead ==
    /\ pc = "wm_read"
    /\ LET n == IF arg.levels = None THEN Len(omz)
                ELSE Min(arg.levels[1] + 1, Len(omz))
       IN loc' = [loc EXCEPT !.shapes = [i \in 1..n |-> omz[i].shape]]
    /\ pc' = "wm_write"
    /\ UNCHANGED <<prog, arg, gp, omz, attrs, nifti, err>>

\* lines 585-694: the multiscales attribute is built and written
WMWrite ==
    /\ pc = "wm_write"
    /\ LET axes == arg.axes
           ndim == Len(axes)
           sdim == SDim(axes)
           bdim == ndim - sdim
           aligns == PadToSDim(arg.pyramid_aligns, sdim)
           space_scale == PadToSDim(arg.space_scale, sdim)
           shapes == loc.shapes
           zerodiv == \E n \in 1..Len(shapes), i \in 1..sdim :
                         /\ ~aligns[i].int
                         /\ aligns[i].s # "edge"
                         /\ shapes[n][bdim + i] = 1
       IN IF Len(shapes) = 0
          THEN pc' = "raised" /\ err' = "IndexError" /\ UNCHANGED <<attrs, loc>>
          ELSE IF zerodiv
          THEN pc' = "raised" /\ err' = "ZeroDivisionError" /\ UNCHANGED <<attrs, loc>>
          ELSE
            /\ attrs' =
                [axes |-> [i \in 1..ndim |-> [name |-> axes[i], type |-> AxisType(axes[i])]],
                 datasets |->
                    [n \in 1..Len(shapes) |->
                        [path |-> n - 1,
                         scale |-> [a \in 1..ndim |->
                            IF a <= bdim THEN Rat(1, 1)
                            ELSE MetaScale(aligns[a - bdim], n - 1, shapes[1][a],
                                           shapes[n][a], space_scale[a - bdim])],
                         translation |-> [a \in 1..ndim |->
                            IF a <= bdim THEN Rat(0, 1)
                            ELSE MetaTranslation(aligns[a - bdim], n - 1, shapes[1][a],
                                                 shapes[n][a], space_scale[a - bdim])]]],
                 type |-> "median window"]
            /\ loc' = [loc EXCEPT !.aligns = aligns, !.space_scale = space_scale,
                                  !.bdim = bdim]
            /\ pc' = "done"
            /\ err' = err
    /\ UNCHANGED <<prog, arg, gp, omz, nifti>>

\* the stores write_ome_metadata is run on: a pyramid whose spatial extents
\* are halved by floor (generate_pyramid) or by ceiling (JPEG2000 levels)
BatchExtent(axis) == IF axis = "t" THEN 2 ELSE 3
RECURSIVE Halved(_, _, _)
Halved(x, n, up) ==
    IF n = 0 THEN x
    ELSE Halved(IF up THEN ceildiv(x, 2) ELSE Max(1, x \div 2), n - 1, up)
MetaStore(axes, base, nlevels, up) ==
    [n \in 1..nlevels |->
        [shape |-> [a \in 1..Len(axes) |->
                       IF AxisType(axes[a]) = "space"
                       THEN Halved(base[a - (Len(axes) - SDim(axes))], n - 1, up)
                       ELSE BatchExtent(axes[a])],
         chunks |-> None, data |-> <<>>]]

InitWM ==
    /\ prog = "write_ome_metadata"
    /\ \E axes \in {<<"z", "y", "x">>, <<"c", "z", "y", "x">>, <<"t", "c", "z", "y", "x">>},
          base \in [1..3 -> 1..MaxMetaExt], nlevels \in 0..MaxMetaLevels, up \in BOOLEAN,
          levels \in {None, Some(0)},
          space_scale \in {<<1>>, <<2, 3, 5>>},
          aligns \in {<<AlignInt(2)>>, <<AlignInt(3)>>, <<AlignStr("edge")>>,
                      <<AlignStr("center")>>, <<AlignStr("edge"), AlignInt(2)>>} :
          /\ omz = MetaStore(axes, base, nlevels, up)
          /\ arg = [axes |-> axes, space_scale |-> space_scale,
                    pyramid_aligns |-> aligns, levels |-> levels]
    /\ loc = [shapes |-> <<>>, aligns |-> <<>>, space_scale |-> <<>>, bdim |-> 0]
    /\ gp = None
    /\ attrs = None
    /\ nifti = None
    /\ err = None
    /\ pc = "wm_read"

NextWM == WMRead \/ WMWrite

SpecWM == InitWM /\ [][NextWM]_vars

\* ------------------------------------------------- niftizarr_write_header
\* lines 732-757
NWHeader ==
    /\ pc = "nw_header"
    /\ LET h == WriteHeader(arg.shape, arg.nifti_version, arg.header)
       IN /\ loc' = [loc EXCEPT !.header = h.selected]
          /\ IF ~h.fits
             THEN nifti' = nifti /\ pc' = "raised" /\ err' = "HeaderDataError"
             ELSE IF ~DtypeSupported(arg.dtype)
             THEN /\ nifti' = nifti
                  /\ pc' = "raised"
                  /\ err' = "HeaderDataError: data dtype not supported"
             ELSE nifti' = NiftiEntry(h.class) /\ pc' = "done" /\ err' = err
    /\ UNCHANGED <<prog, arg, gp, omz, attrs>>

InitNW ==
    /\ prog = "niftizarr_write_header"
    /\ \E shape \in [1..3 -> {1, 32767, 32768, 40000}] \cup [1..4 -> {2, 32767, 40000}],
          nifti_version \in {1, 2},
          header \in {None, Some("Nifti1Header"), Some("Nifti2Header")},
          dtype \in {"<u2", "<f2"} :
          arg = [shape |-> shape, nifti_version |-> nifti_version, header |-> header,
                 dtype |-> dtype]
    /\ loc = [header |-> None]
    /\ gp = None
    /\ omz = <<>>
    /\ attrs = None
    /\ nifti = None
    /\ err = None
    /\ pc = "nw_header"

NextNW == NWHeader

SpecNW == InitNW /\ [][NextNW]_vars

\* ------------------------------------------ scripts/oct_mat_to_zarr convert
\* lines 149-156: the shape of a level
RECURSIVE ScriptLevelShape(_, _, _)
ScriptLevelShape(shape, no_pool, level) ==
    IF level = 0 THEN shape
    ELSE LET prev == ScriptLevelShape(shape, no_pool, level - 1)
         IN [a \in 1..Len(shape) |-> IF no_pool = Some(a - 1) THEN prev[a]
                                     ELSE prev[a] \div 2]

\* lines 104-124: the sidecar JSON and the group, created with overwrite=True
OMOpen ==
    /\ pc = "om_open"
    /\ loc' = [loc EXCEPT !.json = (arg.meta # None),
                          !.vx = IF arg.meta # None THEN arg.meta[1] ELSE <<1, 1, 1>>]
    /\ omz' = <<>>
    /\ attrs' = None
    /\ nifti' = None
    /\ pc' = "om_create"
    /\ UNCHANGED <<prog, arg, gp, err>>

\* lines 126-156: the number of levels, and every level is created
OMCreate ==
    /\ pc = "om_create"
    /\ LET shape == arg.inp.shape
           nblevels == NbLevels(shape, arg.no_pool, arg.max_load, arg.max_levels)
       IN /\ loc' = [loc EXCEPT !.inp_chunk = InpChunk(shape, arg.max_load),
                                !.nblevels = nblevels]
          /\ omz' = [l \in 1..nblevels |->
                        LET sl == ScriptLevelShape(shape, arg.no_pool, l - 1)
                        IN NewArray(sl, [a \in 1..Len(sl) |-> Min(sl[a], arg.chunk)])]
    /\ pc' = "om_chunks"
    /\ UNCHANGED <<prog, arg, gp, attrs, nifti, err>>

\* lines 158-224: the loop over the input chunks. With at least one level the
\* first chunk is saved to level 0 and line 183 then reads level_chunk.shape of
\* a list; without levels the loop body does nothing
OMChunks ==
    /\ pc = "om_chunks"
    /\ IF loc.nblevels >= 1
       THEN /\ omz' = [omz EXCEPT ![1].data =
                  [c \in DOMAIN omz[1].data |->
                      IF InRegion(c, [a \in 1..3 |-> 0], loc.inp_chunk)
                      THEN [n |-> omz[1].data[c].n + 1, v |-> {c}]
                      ELSE omz[1].data[c]]]
            /\ pc' = "raised"
            /\ err' = "AttributeError"
       ELSE pc' = "om_attrs" /\ UNCHANGED <<omz, err>>
    /\ UNCHANGED <<prog, arg, loc, gp, attrs, nifti>>

\* lines 226-279: the multiscales attribute
OMAttrs ==
    /\ pc = "om_attrs"
    /\ attrs' = [axes |-> <<[name |-> "z", type |-> "space"],
                           [name |-> "y", type |-> "space"],
                           [name |-> "x", type |-> "space"]>>,
                 datasets |->
                    [i \in 1..Max(loc.nblevels, 0) |->
                        [path |-> i - 1,
                         scale |-> StackScale(i - 1, arg.no_pool, loc.vx),
                         translation |-> StackTranslation(i - 1, arg.no_pool, loc.vx)]],
                 type |-> IF arg.no_pool = None THEN "2x2x2mean window"
                          ELSE "2x2mean window"]
    /\ pc' = IF arg.nii THEN "om_nifti" ELSE "done"
    /\ UNCHANGED <<prog, arg, loc, gp, omz, nifti, err>>

\* lines 281-303: omz['0'] is looked up, then the NIfTI-2 header is written
OMNifti ==
    /\ pc = "om_nifti"
    /\ IF Len(omz) = 0
       THEN pc' = "raised" /\ err' = "KeyError" /\ UNCHANGED <<nifti, loc>>
       ELSE /\ nifti' = [class |-> "Nifti2Header",
                         shape |-> ArrayFromData(HeaderBytes("Nifti2Header"),
                                     [a \in 1..3 |-> omz[1].shape[4 - a]]),
                         chunks |-> <<HeaderBytes("Nifti2Header")>>,
                         compressor |-> None, magic |-> "nz2"]
            /\ loc' = [loc EXCEPT !.header = "Nifti2Header"]
            /\ pc' = "done"
            /\ err' = err
    /\ UNCHANGED <<prog, arg, gp, omz, attrs>>

InitOM ==
    /\ prog = "oct_mat_to_zarr"
    /\ \E shape \in [1..3 -> 1..MaxStackExt], max_load \in 1..MaxStackLoad,
          max_levels \in 0..MaxLevels, no_pool \in {None, Some(0)}, nii \in BOOLEAN,
          meta \in {None, Some(MetaVx)} :
          arg = [inp |-> [is_array |-> TRUE, shape |-> shape, dtype |-> "<u2"],
                 chunk |-> MaxChunk, max_load |-> max_load, max_levels |-> max_levels,
                 no_pool |-> no_pool, nii |-> nii, meta |-> meta]
    /\ loc = [json |-> FALSE, vx |-> None, inp_chunk |-> None, nblevels |-> 0,
              header |-> None]
    /\ gp = None
    /\ omz = OldStore
    /\ attrs = None
    /\ nifti = None
    /\ err = None
    /\ pc = "om_open"

NextOM == OMOpen \/ OMCreate \/ OMChunks \/ OMAttrs \/ OMNifti

SpecOM == InitOM /\ [][NextOM]_vars

\* ------------------------------------------------------------------ mapmat
\* A file is [keys, closable, shape]: the keys in iteration order, whether the
\* opened object has a close method (h5py.File has, loadmat's dict has not),
\* and the shape of the arrays it holds.
\* line 276: the key taken when none is given
DefaultKeyLast(keys) == keys[Len(keys)]
DefaultKey(keys) == keys[1]
KeysOf(f) == {f.keys[i] : i \in 1..Len(f.keys)}

\* lines 266-291: one iteration of the for loop, up to its yield or append
MMFile ==
    /\ pc = "mm_file"
    /\ LET f == arg.fnames[loc.i]
           defaulted == loc.key = None
           key == IF defaulted /\ Len(f.keys) > 0 THEN Some(DefaultKey(f.keys))
                  ELSE loc.key
           warned == IF defaulted /\ Len(f.keys) > 1
                     THEN Append(loc.warned, loc.i) ELSE loc.warned
       IN IF defaulted /\ Len(f.keys) = 0
          THEN /\ pc' = "raised"
               /\ err' = "Exception: file is empty"
               /\ loc' = [loc EXCEPT !.errfile = loc.i]
          ELSE IF key[1] \notin KeysOf(f)
          THEN /\ pc' = "raised"
               /\ err' = "Exception: key not found in file"
               /\ loc' = [loc EXCEPT !.key = key, !.warned = warned, !.errfile = loc.i]
          ELSE IF Len(arg.fnames) = 1
          THEN /\ pc' = "mm_yielded"
               /\ err' = err
               /\ loc' = [loc EXCEPT !.key = key, !.warned = warned,
                                     !.yields = loc.yields + 1,
                                     !.out = Some(f.shape),
                                     !.used = Append(loc.used, key[1])]
          ELSE /\ pc' = IF loc.i = Len(arg.fnames) THEN "mm_stack" ELSE "mm_file"
               /\ err' = err
               /\ loc' = [loc EXCEPT !.key = key, !.warned = warned,
                                     !.loaded = Append(loc.loaded, f.shape),
                                     !.used = Append(loc.used, key[1]),
                                     !.i = loc.i + 1]
    /\ UNCHANGED <<prog, arg, gp, omz, attrs, nifti>>

\* line 292: yield np.stack(loaded_data, axis=-1); np.stack rejects an empty
\* list and arrays of different shapes. A generator that yields again while
\* the context manager exits makes contextlib raise RuntimeError
MMStack ==
    /\ pc = "mm_stack"
    /\ IF Len(loc.loaded) = 0
       THEN /\ pc' = "raised"
            /\ err' = "ValueError: need at least one array to stack"
            /\ loc' = loc
       ELSE IF \E i \in 1..Len(loc.loaded) : loc.loaded[i] # loc.loaded[1]
       THEN /\ pc' = "raised"
            /\ err' = "ValueError: all input arrays must have the same shape"
            /\ loc' = loc
       ELSE IF loc.exiting
       THEN /\ pc' = "raised"
            /\ err' = "RuntimeError: generator didn't stop"
            /\ loc' = [loc EXCEPT !.yields = loc.yields + 1]
       ELSE /\ pc' = "mm_yielded"
            /\ err' = err
            /\ loc' = [loc EXCEPT !.yields = loc.yields + 1,
                                  !.out = Some(loc.loaded[1] \o <<Len(loc.loaded)>>)]
    /\ UNCHANGED <<prog, arg, gp, omz, attrs, nifti>>

\* the body of the with statement has completed and the generator is resumed:
\* after the yield of line 286 come lines 287-289 (close, break) and then
\* line 292; after the yield of line 292 the generator ends
MMResume ==
    /\ pc = "mm_yielded"
    /\ IF Len(arg.fnames) = 1
       THEN /\ loc' = [loc EXCEPT
                  !.closed = IF arg.fnames[loc.i].closable
                             THEN loc.closed \cup {loc.i} ELSE loc.closed,
                  !.exiting = TRUE]
            /\ pc' = "mm_stack"
       ELSE /\ loc' = [loc EXCEPT !.exiting = TRUE]
            /\ pc' = "done"
    /\ UNCHANGED <<prog, arg, gp, omz, attrs, nifti, err>>

MatKeys == {<<>>, <<"Psi">>, <<"Psi", "mask">>, <<"mask", "Psi">>, <<"mask">>}
MatFiles ==
    {[keys |-> k, closable |-> c, shape |-> sh] :
        k \in MatKeys, c \in BOOLEAN, sh \in {<<2, 2, 2>>, <<2, 2, 3>>}}
MaxFiles == 2

InitMM ==
    /\ prog = "mapmat"
    /\ \E n \in 1..MaxFiles : \E fnames \in [1..n -> MatFiles] :
       \E key \in {None, Some("Psi"), Some("mask")} :
          /\ arg = [fnames |-> fnames, key |-> key]
          /\ loc = [i |-> 1, key |-> key, loaded |-> <<>>, used |-> <<>>,
                    warned |-> <<>>, yields |-> 0, out |-> None, closed |-> {},
                    exiting |-> FALSE, errfile |-> 0]
    /\ gp = None
    /\ omz = <<>>
    /\ attrs = None
    /\ nifti = None
    /\ err = None
    /\ pc = "mm_file"

NextMM == MMFile \/ MMStack \/ MMResume

SpecMM == InitMM /\ [][NextMM]_vars

\* ------------------------------------- generate_pyramid: the window function
\* an integer too wide for one machine word of the checker: hi * 2^27 + lo
LimbBase == Pow(2, 27)
Big(hi, lo) == [hi |-> hi, lo |-> lo]
BigNorm(hi, lo) == Big(hi + lo \div LimbBase, lo % LimbBase)
BigAdd(x, y) == BigNorm(x.hi + y.hi, x.lo + y.lo)
\* float64 holds 53 significant bits: the spacing of the floats around x
Float64Spacing(x) ==
    IF x.hi < Pow(2, 26) THEN 1
    ELSE IF x.hi < Pow(2, 27) THEN 2
    ELSE IF x.hi < Pow(2, 28) THEN 4
    ELSE IF x.hi < Pow(2, 29) THEN 8 ELSE 16
\* the float64 nearest to x, ties to the even mantissa
Float64(x) ==
    LET q == Float64Spacing(x)
        r == x.lo % q
        down == x.lo - r
    IN IF 2 * r < q \/ (2 * r = q /\ (down \div q) % 2 = 0)
       THEN Big(x.hi, down)
       ELSE BigNorm(x.hi, down + q)
\* np.add.reduce with dtype float64: the elements are converted and accumulated
RECURSIVE SumOf(_, _)
SumOf(v, k) ==
    IF k = 1 THEN Float64(v) ELSE Float64(BigAdd(SumOf(v, k - 1), Float64(v)))
\* x / k for a power of two k is exact in float64; astype truncates it
TruncDiv(x, k) == Big(x.hi \div k, ((x.hi % k) * LimbBase + x.lo) \div k)
\* line 507 with func = np.mean, then line 508, on a window of k samples v
MeanOfSum(v, k) == SumOf(v, k)
MeanOf(v, k) == TruncDiv(SumOf(v, k), k)
\* line 507 with func = np.median, then line 508: the mean of the middle
\* sample (k = 1) or of the two middle samples
MedianOf(v, k) == IF k = 1 THEN MeanOf(v, 1) ELSE MeanOf(v, 2)

\* lines 483-488: the sub-tile is cropped
RDCrop ==
    /\ pc = "rd_crop"
    /\ loc' = [loc EXCEPT !.patch_shape =
                  [a \in 1..DefaultNdim |-> arg.shape[a] - Crop(arg.shape[a])]]
    /\ pc' = "rd_window"
    /\ UNCHANGED <<prog, arg, gp, omz, attrs, nifti, err>>

\* lines 490-503: the patches are flattened along a last axis
RDWindow ==
    /\ pc = "rd_window"
    /\ loc' = [loc EXCEPT
          !.smaller_shape = [a \in 1..DefaultNdim |-> SmallerExtent(loc.patch_shape[a])],
          !.count = Prod([a \in 1..DefaultNdim |-> WindowExtent(loc.patch_shape[a])])]
    /\ pc' = "rd_func"
    /\ UNCHANGED <<prog, arg, gp, omz, attrs, nifti, err>>

\* lines 505-508: every patch is reduced and cast back; the patches of a
\* block of one value are all alike
RDFunc ==
    /\ pc = "rd_func"
    /\ loc' = [loc EXCEPT !.out = IF arg.mode = "mean" THEN MeanOf(arg.value, loc.count)
                                  ELSE MedianOf(arg.value, loc.count)]
    /\ pc' = "done"
    /\ UNCHANGED <<prog, arg, gp, omz, attrs, nifti, err>>

\* values of 8-, 16-, 32- and 64-bit integer types
BlockValues ==
    {Big(0, 0), Big(0, 1), Big(0, 255), Big(0, 65535), Big(15, LimbBase - 1),
     Big(Pow(2, 23), 0), Big(Pow(2, 26), 1), Big(Pow(2, 26), 3), Big(Pow(2, 27), 2)}

InitRD ==
    /\ prog = "reduce"
    /\ \E value \in BlockValues, shape \in [1..DefaultNdim -> 1..MaxExt],
          mode \in {"mean", "median"} :
          arg = [value |-> value, shape |-> shape, mode |-> mode]
    /\ loc = [patch_shape |-> <<>>, smaller_shape |-> <<>>, count |-> 0, out |-> None]
    /\ gp = None
    /\ omz = <<>>
    /\ attrs = None
    /\ nifti = None
    /\ err = None
    /\ pc = "rd_crop"

NextRD == RDCrop \/ RDWindow \/ RDFunc

SpecRD == InitRD /\ [][NextRD]_vars

\* ---------------------------------------------------------- specifications
\* the metadata writers of the window-based pyramids
SpecWindow == (InitStack \/ InitWM) /\ [][NextStack \/ NextWM]_vars
\* the metadata writers of the edge-aligned pyramids
SpecEdge == (InitMS \/ InitWM) /\ [][NextMS \/ NextWM]_vars
\* the writers of the "nifti" entry
SpecHeaders ==
    /\ InitMS \/ InitStackWide \/ InitNW \/ InitOM
    /\ [][NextMS \/ NextStack \/ NextNW \/ NextOM]_vars
Init == InitGP \/ InitStack \/ InitMS \/ InitWM \/ InitNW \/ InitRD \/ InitOM \/ InitMM
Next ==
    NextGP \/ NextStack \/ NextMS \/ NextWM \/ NextNW \/ NextRD \/ NextOM \/ NextMM
Spec == Init /\ [][Next]_vars

\* ------------------------------------------------------------------ claims
Spatial(shape) == LastN(shape, DefaultNdim)
\* the programs whose coarser levels generate_pyramid creates
GPBuilt == prog \in {"generate_pyramid", "stacking"}

\* C1 (as stated): every level n+1 that generate_pyramid creates has, on each
\* spatial axis, the declared extent ceil(extent at level n / 2).
C1_DeclaredExtentIsCeil ==
    GPBuilt =>
        \A k \in 1..(Len(omz) - 1) : \A a \in 1..DefaultNdim :
            Spatial(omz[k + 1].shape)[a] = ceildiv(Spatial(omz[k].shape)[a], 2)

\* C1 (amended): every level n+1 that generate_pyramid creates has, on each
\* spatial axis, the declared extent max(1, floor(extent at level n / 2)).
C1_DeclaredExtentIsFloor ==
    GPBuilt =>
        \A k \in 1..(Len(omz) - 1) :
            \A a \in 1..DefaultNdim :
                LET x == Spatial(omz[k].shape)[a]
                IN Spatial(omz[k + 1].shape)[a] = (IF x < 2 THEN 1 ELSE (x - (x % 2)) \div 2)

\* C1 witness: a level was created from a level with an odd extent of 3 or more
C1_Witness ==
    /\ GPBuilt
    /\ Len(omz) >= 2
    /\ \E a \in 1..DefaultNdim :
          Spatial(omz[1].shape)[a] >= 3 /\ Spatial(omz[1].shape)[a] % 2 = 1

\* C2: with levels = None, when generate_pyramid has returned, the coarsest
\* level of the store has every spatial extent <= the chunk size of level 0 on
\* that axis.
C2_CoarsestFitsChunk ==
    (prog = "generate_pyramid" /\ arg.levels = None /\ pc = "done") =>
        \A a \in 1..DefaultNdim :
            Spatial(omz[Len(omz)].shape)[a] <= Spatial(omz[1].chunks)[a]

\* C3: while generate_pyramid fills level n+1, the destination regions of the
\* sub-tiles of the max_load grid are pairwise disjoint and cover [0, shape) of
\* level n+1: every index of the level lies in exactly one of them.
C3_DestinationsTile ==
    (GPBuilt /\ pc = "gp_tile") =>
        LET grid == GridShape(gp.prev_shape, gp.max_load)
        IN \A c \in Cells(gp.shape) :
              Cardinality({t \in 0..(Prod(grid) - 1) :
                  InRegion(c, WriteLo(ChunkIndex(t, grid), gp.max_load),
                           WriteHi(ChunkIndex(t, grid), gp.max_load, gp.shape))}) = 1

\* C4: in stacking convert, for an input of rank >= 3 and any max_load, the
\* copy loop writes every element of level 0 exactly once, inside [0, shape),
\* with the input element of the same index: no element is ever written
\* twice, every sub-tile's region lies inside the array, and when the loop has
\* ended every element has been written once.
CopyEnded ==
    pc \in {"st_pyramid", "gp_loop", "gp_tile", "gp_return", "st_attrs", "st_nifti", "done"}
C4_Level0WrittenOnce ==
    prog = "stacking" =>
        /\ pc = "st_copy" =>
              LET shape == arg.inp.shape
                  kji == CopyIndex(loc.t, loc.nk, loc.nj, loc.ni)
                  wlo == CopyWriteLo(kji, loc.inp_chunk, shape)
                  ext == Extent(CopyReadLo(kji, loc.inp_chunk, shape),
                                CopyReadHi(kji, loc.inp_chunk, shape))
              IN /\ \A a \in 1..Len(shape) :
                       0 <= wlo[a] /\ ext[a] >= 1 /\ wlo[a] + ext[a] <= shape[a]
                 /\ \A c \in DOMAIN omz[1].data :
                       \/ omz[1].data[c] = [n |-> 0, v |-> {}]
                       \/ omz[1].data[c] = [n |-> 1, v |-> {c}]
        /\ CopyEnded =>
              /\ DOMAIN omz[1].data = Cells(arg.inp.shape)
              /\ \A c \in Cells(arg.inp.shape) : omz[1].data[c] = [n |-> 1, v |-> {c}]

\* C4 witness: the copy of an input has ended that took several sub-tiles, the
\* last of them smaller than max_load
C4_Witness ==
    /\ prog = "stacking"
    /\ pc = "st_pyramid"
    /\ loc.nk > 1 /\ loc.nj > 1
    /\ arg.inp.shape[1] % arg.max_load # 0
    /\ \A c \in Cells(arg.inp.shape) : omz[1].data[c].n = 1

\* C5: in multi-slice compositing the canvas is the per-axis maximum of the
\* slices; at each level every slice sits at offset floor((canvas extent -
\* slice extent) / 2) on each in-plane axis; every element inside a slice's
\* footprint is written exactly once per channel, in the direct and in the
\* tiled branch, and every element outside it keeps the fill value.
MSLevelsEnded == pc \in {"ms_attrs", "ms_nifti", "ms_sidecar", "done"}
C5_SlicesCentred ==
    prog = "multi_slice" =>
        /\ pc \notin {"ms_open", "ms_scan"} =>
              /\ \A i \in 1..Len(arg.inp) :
                    arg.inp[i].h <= loc.new_size[1] /\ arg.inp[i].w <= loc.new_size[2]
              /\ \E i \in 1..Len(arg.inp) : arg.inp[i].h = loc.new_size[1]
              /\ \E i \in 1..Len(arg.inp) : arg.inp[i].w = loc.new_size[2]
        /\ \A lev \in 1..Len(omz) : pc \notin {"ms_open", "raised"} =>
              \A c \in DOMAIN omz[lev].data : omz[lev].data[c].n <= 1
        /\ MSLevelsEnded =>
              \A lev \in 1..Len(omz) :
                 /\ omz[lev].shape[3] = ceildiv(loc.new_size[1], Pow(2, lev - 1))
                 /\ omz[lev].shape[4] = ceildiv(loc.new_size[2], Pow(2, lev - 1))
                 /\ \A c \in DOMAIN omz[lev].data :
                      LET sub_h == ceildiv(arg.inp[c[2] + 1].h, Pow(2, lev - 1))
                          sub_w == ceildiv(arg.inp[c[2] + 1].w, Pow(2, lev - 1))
                          x == (omz[lev].shape[3] - sub_h) \div 2
                          y == (omz[lev].shape[4] - sub_w) \div 2
                      IN IF x <= c[3] /\ c[3] < x + sub_h /\ y <= c[4] /\ c[4] < y + sub_w
                         THEN omz[lev].data[c] =
                                 [n |-> 1, v |-> {<<c[1], c[2], c[3] - x, c[4] - y>>}]
                         ELSE omz[lev].data[c] = [n |-> 0, v |-> {}]

\* C5 witness: two slices of different sizes were composited on two levels
\* through the tiled branch, one of them at a non-zero offset
C5_Witness ==
    /\ prog = "multi_slice"
    /\ pc = "done"
    /\ Len(omz) = 2
    /\ Len(arg.inp) = 2
    /\ arg.max_load = Some(2)
    /\ arg.inp[1].h = 1 /\ arg.inp[2].h = 3 /\ arg.inp[1].w = 3 /\ arg.inp[2].w = 2
    /\ omz[1].data[<<0, 0, 1, 2>>].n = 1
    /\ omz[1].data[<<0, 0, 0, 0>>].n = 0

\* C6: when stacking convert is called with no_pool = i, axis i has in every
\* level the extent it has in level 0, and the other spatial axes are halved.
C6_NoPoolAxisKept ==
    (prog = "stacking" /\ pc = "done" /\ arg.no_pool # None) =>
        \A k \in 1..Len(omz) :
            omz[k].shape[arg.no_pool[1] + 1] = omz[1].shape[arg.no_pool[1] + 1]

\* C7: niftizarr_write_header selects, whatever nifti_version is, the 540-byte
\* NIfTI-2 layout when a dimension of shape exceeds 32767 and the 348-byte
\* NIfTI-1 layout otherwise.
C7_LayoutFollowsShape ==
    (prog = "niftizarr_write_header" /\ pc # "nw_header" /\ arg.header = None) =>
        HeaderBytes(loc.header) =
            (IF \E a \in 1..Len(arg.shape) : arg.shape[a] > 32767 THEN 540 ELSE 348)

\* C8: in the window-based metadata (stacking convert; write_ome_metadata with
\* a numeric pyramid_aligns factor f) level n records, on every pooled spatial
\* axis, the translation (f^n - 1) * voxel_size / 2 and the scale
\* f^n * voxel_size; level 0 has zero translation and the base voxel size.
C8_WindowTransforms ==
    /\ (prog = "stacking" /\ attrs # None) =>
          \A i \in 1..Len(attrs.datasets) : \A a \in 1..3 :
             arg.no_pool # Some(a - 1) =>
                /\ RatEq(attrs.datasets[i].translation[a],
                         Rat((Pow(2, i - 1) - 1) * loc.vx[a], 2))
                /\ RatEq(attrs.datasets[i].scale[a], Rat(Pow(2, i - 1) * loc.vx[a], 1))
                /\ i = 1 => attrs.datasets[i].translation[a].num = 0
    /\ (prog = "write_ome_metadata" /\ attrs # None) =>
          \A i \in 1..Len(attrs.datasets) : \A j \in 1..Len(loc.aligns) :
             loc.aligns[j].int =>
                LET a == loc.bdim + j
                    f == loc.aligns[j].f
                IN /\ RatEq(attrs.datasets[i].translation[a],
                            Rat((Pow(f, i - 1) - 1) * loc.space_scale[j], 2))
                   /\ RatEq(attrs.datasets[i].scale[a],
                            Rat(Pow(f, i - 1) * loc.space_scale[j], 1))
                   /\ i = 1 => attrs.datasets[i].translation[a].num = 0

\* C8 witness: stacking convert recorded a second level with a voxel size
\* read from a metadata file
C8_Witness ==
    /\ prog = "stacking"
    /\ attrs # None
    /\ Len(attrs.datasets) = 2
    /\ arg.no_pool = None
    /\ loc.vx = MetaVx
    /\ attrs.datasets[2].translation[3] = Rat(5, 2)

\* the in-plane and edge-aligned axes of the recorded transforms, each with its
\* base voxel size
EdgeAxes ==
    IF prog = "multi_slice"
    THEN {<<loc.has_channel + 2, arg.px[2]>>, <<loc.has_channel + 3, arg.px[1]>>}
    ELSE {<<loc.bdim + j, loc.space_scale[j]>> : j \in {k \in 1..Len(loc.aligns) :
                                                           IsEdge(loc.aligns[k])}}

\* C9 (as stated): for edge-aligned levels (multi-slice convert;
\* write_ome_metadata with pyramid_aligns = "edge") the translation recorded
\* for every level on every axis is zero.
C9_EdgeTranslationZero ==
    (prog \in {"multi_slice", "write_ome_metadata"} /\ attrs # None) =>
        \A i \in 1..Len(attrs.datasets) : \A e \in EdgeAxes :
            attrs.datasets[i].translation[e[1]].num = 0

\* C9 (amended): for edge-aligned levels the translation recorded on an
\* edge-aligned axis is half the difference between the scale recorded for
\* that level and axis and the base voxel size; it is zero at level 0, and on
\* the channel and slice axes of the multi-slice converter.
C9_EdgeTranslationHalfShift ==
    (prog \in {"multi_slice", "write_ome_metadata"} /\ attrs # None) =>
        /\ \A i \in 1..Len(attrs.datasets) : \A e \in EdgeAxes :
              LET tr == attrs.datasets[i].translation[e[1]]
                  sc == attrs.datasets[i].scale[e[1]]
              IN /\ 2 * tr.num * sc.den = (sc.num - e[2] * sc.den) * tr.den
                 /\ i = 1 => tr.num = 0
        /\ prog = "multi_slice" =>
              \A i \in 1..Len(attrs.datasets) : \A a \in 1..(loc.has_channel + 1) :
                 attrs.datasets[i].translation[a].num = 0

\* C9 witness: the multi-slice converter recorded a level 1 whose translation
\* is not zero
C9_Witness ==
    /\ prog = "multi_slice"
    /\ attrs # None
    /\ Len(attrs.datasets) = 2
    /\ attrs.datasets[2].translation[3].num > 0

\* C10: in the multi-slice metadata, the scale recorded for level n on each
\* in-plane axis is (level-0 extent of that axis / level-n extent of that
\* axis) * the pixel size of that axis.
C10_ScalePerAxisRatio ==
    (prog = "multi_slice" /\ attrs # None) =>
        \A i \in 1..Len(attrs.datasets) :
            /\ RatEq(attrs.datasets[i].scale[loc.has_channel + 2],
                     Rat(omz[1].shape[3] * arg.px[2], omz[i].shape[3]))
            /\ RatEq(attrs.datasets[i].scale[loc.has_channel + 3],
                     Rat(omz[1].shape[4] * arg.px[1], omz[i].shape[4]))

\* the input slices differ in channel count or in dtype
Heterogeneous(inp) ==
    \E i, j \in 1..Len(inp) : inp[i].nch # inp[j].nch \/ inp[i].dtype # inp[j].dtype

\* C11: when the input slices of multi-slice convert differ in channel count
\* or in dtype, convert aborts with an error before any array is created or
\* written in the output store: the run never completes and the store never
\* holds a level.
C11_HeterogeneousAborts ==
    (prog = "multi_slice" /\ Heterogeneous(arg.inp) /\ pc # "ms_open") =>
        /\ omz = <<>>
        /\ pc # "done"

\* C12: in stacking convert, an error on the input (not an array with a
\* dtype, or fewer than 3 dimensions) is raised before any mutation of the
\* output store: when it is raised the store found at the output path is
\* still there and no sidecar JSON has been written.
C12_InputErrorBeforeMutation ==
    (prog = "stacking" /\ pc = "raised"
        /\ err \in {"Input is not a numpy array", "Input array is not 3d"}) =>
        /\ omz = OldStore
        /\ ~loc.json

\* C13: when the element type of the data is not supported by the NIfTI
\* header, the conversion aborts before any mutation of the store: at the
\* moment the unsupported-dtype error is raised no level array has been
\* created or written and no attribute has been set.
C13_DtypeErrorBeforeMutation ==
    (prog = "stacking" /\ pc = "raised"
        /\ err = "HeaderDataError: data dtype not supported") =>
        /\ omz \in {OldStore, <<>>}
        /\ attrs = None

\* C14: multi-slice convert accepts channel-less (2-D) slices and composites
\* them as a single implicit channel: the run raises no error, and every level
\* it creates has a channel axis of extent 1.
C14_ChannelLessAccepted ==
    (prog = "multi_slice" /\ \A i \in 1..Len(arg.inp) : arg.inp[i].nch = 0) =>
        /\ pc # "raised"
        /\ \A lev \in 1..Len(omz) : pc # "ms_open" => omz[lev].shape[1] = 1

\* C15 (as stated): for every integer value v, the block computed from a
\* sub-tile whose elements all equal v (cropping, windowing, mean or median,
\* cast back to the integer type) has all elements equal to v.
C15_ConstantBlockKept ==
    (prog = "reduce" /\ pc = "done") => loc.out = arg.value

\* C15 (amended): the same for every integer value v with |v| <= 2^50, which
\* covers the integer types of at most 32 bits.
C15_ConstantBlockKeptBelow2To50 ==
    (prog = "reduce" /\ pc = "done"
        /\ (arg.value.hi < Pow(2, 23) \/ arg.value = Big(Pow(2, 23), 0))) =>
        loc.out = arg.value

\* C15 witness: a cropped sub-tile of value 2^31 - 1 was reduced by the mean
\* of full 2x2x2 windows
C15_Witness ==
    /\ prog = "reduce"
    /\ pc = "done"
    /\ arg.mode = "mean"
    /\ arg.value = Big(15, LimbBase - 1)
    /\ arg.shape = <<3, 3, 3>>
    /\ loc.count = 8
    /\ loc.out = arg.value

\* while a sub-tile of the previous level is read, the level built is the last
\* one of the store and every element of the level read has been written
C16_ReadsFollowWrites ==
    (prog = "generate_pyramid" /\ pc = "gp_tile") =>
        /\ Len(omz) = gp.level + 1
        /\ \A c \in DOMAIN omz[gp.level].data : omz[gp.level].data[c].n = 1
\* a step adds at most one level, named by the next level number, writes only
\* to the last level, and leaves a level only after the last sub-tile write
C16_WritesInLevelOrder ==
    prog = "generate_pyramid" =>
        /\ Len(omz') >= Len(omz)
        /\ Len(omz') > Len(omz) =>
              /\ Len(omz') = Len(omz) + 1
              /\ gp'.level = Len(omz)
        /\ \A k \in 1..Len(omz) : omz'[k] # omz[k] => k = Len(omz)
        /\ pc' = "gp_loop" /\ pc = "gp_tile" =>
              gp'.t = Prod(GridShape(gp.prev_shape, gp.max_load))
\* C16: in generate_pyramid, level n is read to build level n+1 only when
\* every sub-tile write of level n has completed; levels are created in
\* strictly increasing order; and once level n+1 exists no write is issued to
\* level n or to a finer level.
C16_LevelsInOrder == [](C16_ReadsFollowWrites) /\ [][C16_WritesInLevelOrder]_vars

\* C16 witness: level 2 is being built from a level 1 that took eight
\* sub-tile writes
C16_Witness ==
    /\ prog = "generate_pyramid"
    /\ pc = "gp_tile"
    /\ gp.level = 2
    /\ gp.max_load = 2
    /\ Spatial(omz[1].shape) = <<4, 4, 4>>
    /\ \A c \in DOMAIN omz[2].data : omz[2].data[c].n = 1

\* C17: during a stacking convert run with max_load = M, every region read
\* into memory, while level 0 is copied and while generate_pyramid builds the
\* coarser levels, has an extent of at most M along every spatial axis.
C17_ReadsWithinMaxLoad ==
    prog = "stacking" =>
        /\ pc = "st_copy" =>
              LET kji == CopyIndex(loc.t, loc.nk, loc.nj, loc.ni)
                  ext == Extent(CopyReadLo(kji, loc.inp_chunk, arg.inp.shape),
                                CopyReadHi(kji, loc.inp_chunk, arg.inp.shape))
              IN \A a \in 1..3 : ext[a] <= arg.max_load
        /\ pc = "gp_tile" =>
              LET ci == ChunkIndex(gp.t, GridShape(gp.prev_shape, gp.max_load))
                  ext == Extent(ReadLo(ci, gp.max_load),
                                ReadHi(ci, gp.max_load, gp.prev_shape))
              IN \A a \in 1..DefaultNdim : ext[a] <= arg.max_load

\* C18: in every multiscales attribute the converters write (multi-slice
\* convert, stacking convert, write_ome_metadata), the type of each axis
\* descriptor is one of space, time and channel.
C18_AxisTypesValid ==
    attrs # None =>
        \A i \in 1..Len(attrs.axes) : attrs.axes[i].type \in {"space", "time", "channel"}

C21_HeaderWhenAsked ==
    prog \in {"multi_slice", "stacking"} =>
        /\ pc = "done" =>
              (nifti # None <=> (IF prog = "stacking" THEN arg.nii ELSE loc.nii))
        /\ nifti # None =>
              /\ attrs # None
              /\ prog = "stacking" => \A c \in DOMAIN omz[1].data : omz[1].data[c].n = 1

\* C22: when mapmat is called with key=None, the key used is the first key in
\* iteration order of the first file and the same key is used for every later
\* file; a warning is emitted exactly when the file the key was defaulted from
\* has more than one key, and it is not fatal; an empty file or a file lacking
\* the key raises an error that names that file.
C22_DefaultKey ==
    (prog = "mapmat" /\ arg.key = None) =>
        LET first == arg.fnames[1]
            looked == loc.i > 1 \/ pc # "mm_file"
        IN /\ \A j \in 1..Len(loc.used) : loc.used[j] = first.keys[1]
           /\ looked =>
                 loc.warned = (IF Len(first.keys) > 1 THEN <<1>> ELSE <<>>)
           /\ ~looked => loc.warned = <<>>
           /\ (looked /\ Len(first.keys) > 1) => err # "Exception: file is empty"
           /\ \A j \in 1..Len(arg.fnames) :
                 (Len(first.keys) > 0 /\ first.keys[1] \notin KeysOf(arg.fnames[j])
                  /\ \A h \in 1..(j - 1) : first.keys[1] \in KeysOf(arg.fnames[h])
                  /\ (loc.i > j \/ (loc.i = j /\ pc # "mm_file")))
                 => (pc = "raised" /\ loc.errfile = j
                     /\ err = "Exception: key not found in file")
           /\ (Len(first.keys) = 0 /\ looked) =>
                 (pc = "raised" /\ loc.errfile = 1 /\ err = "Exception: file is empty")
           /\ (pc = "raised" /\ err = "Exception: key not found in file") =>
                 loc.key[1] \notin KeysOf(arg.fnames[loc.errfile])

\* C22 witness: two files were loaded with the key defaulted from the first
\* file, which has two keys, and the warning was emitted once
C22_Witness ==
    /\ prog = "mapmat"
    /\ arg.key = None
    /\ pc = "mm_yielded"
    /\ Len(arg.fnames) = 2
    /\ arg.fnames[1].keys = <<"mask", "Psi">>
    /\ arg.fnames[2].keys = <<"Psi", "mask">>
    /\ loc.used = <<"mask", "mask">>
    /\ loc.warned = <<1>>

\* C28: the mapmat context manager yields exactly once per use and exits
\* without raising when its body completes normally, for a single input file
\* as well as for several; in the single-file case the opened file is closed
\* on exit.
C28_YieldsOnceExitsCleanly ==
    (prog = "mapmat" /\ loc.exiting) =>
        /\ loc.yields = 1
        /\ pc # "raised"
        /\ (pc = "done" /\ Len(arg.fnames) = 1 /\ arg.fnames[1].closable) =>
              loc.closed = {1}

\* C23: generate_pyramid called with levels = k >= 0 creates exactly the k
\* additional levels 1..k, whatever the chunk size, and returns a list of k+1
\* spatial shapes, ordered from finest to coarsest, whose first entry is the
\* shape of the existing level 0.
C23_LevelsAsAsked ==
    (prog = "generate_pyramid" /\ arg.levels # None) =>
        /\ pc # "raised"
        /\ pc = "done" =>
              /\ Len(omz) = arg.levels[1] + 1
              /\ Len(gp.allshapes) = arg.levels[1] + 1
              /\ gp.allshapes[1] = Spatial(omz[1].shape)
              /\ \A k \in 1..Len(omz) : gp.allshapes[k] = Spatial(omz[k].shape)
              /\ \A k \in 1..(Len(omz) - 1) : \A a \in 1..DefaultNdim :
                    gp.allshapes[k + 1][a] <= gp.allshapes[k][a]

\* the window of level n that output index o of level n+1 stands for: the
\* indices 2o and 2o+1 on each spatial axis, the single sample on an axis of
\* extent 1
PairWindow(o, prev_shape) ==
    Box([a \in 1..Len(o) |-> IF prev_shape[a] = 1 THEN 0 ELSE 2 * o[a]],
        [a \in 1..Len(o) |-> IF prev_shape[a] = 1 THEN 1 ELSE 2 * o[a] + 2])

\* C24: for every level n+1 built by generate_pyramid and every output index
\* o, the value stored is the reduction of exactly the window of level n at
\* the indices 2o, 2o+1 on each spatial axis (a single sample on an axis of
\* extent 1), so that a trailing odd sample contributes to no output element;
\* this for every max_load: sub-tile boundaries never split or shift a window.
C24_WindowsAligned ==
    (prog = "generate_pyramid" /\ Len(omz[1].shape) = DefaultNdim) =>
        \A k \in 2..Len(omz) : \A o \in DOMAIN omz[k].data :
            /\ omz[k].data[o].n >= 1 =>
                  omz[k].data[o].v = PairWindow(o, omz[k - 1].shape)
            /\ (pc = "done" \/ k < Len(omz)) => omz[k].data[o].n = 1

\* C25: for every sub-tile processed by generate_pyramid, the shape of the
\* reduced block equals the shape of the destination region it is written to,
\* also when the last sub-tile along an axis has extent 1 (extent n > 1 of the
\* previous level with n mod max_load = 1).
C25_BlockFitsDestination ==
    (GPBuilt /\ pc = "gp_tile" /\ Len(omz[1].shape) = DefaultNdim) =>
        LET ci == ChunkIndex(gp.t, GridShape(gp.prev_shape, gp.max_load))
            read == Extent(ReadLo(ci, gp.max_load),
                           ReadHi(ci, gp.max_load, gp.prev_shape))
            block == [a \in 1..DefaultNdim |-> SmallerExtent(read[a] - Crop(read[a]))]
        IN block = Extent(WriteLo(ci, gp.max_load), WriteHi(ci, gp.max_load, gp.shape))

\* C26: every level created by generate_pyramid has the same rank and the
\* same leading batch axes as level 0, only the last ndim axes being halved,
\* for any level 0 whose rank exceeds ndim, such as the 4-D array that
\* stacking convert gets from several input files.
C26_BatchAxesKept ==
    (GPBuilt /\ Len(omz) >= 1) =>
        \A k \in 2..Len(omz) :
            /\ Len(omz[k].shape) = Len(omz[1].shape)
            /\ \A a \in 1..(Len(omz[1].shape) - DefaultNdim) :
                  omz[k].shape[a] = omz[1].shape[a]

\* C27: after stacking convert has returned, the paths listed in the datasets
\* of the multiscales attribute are exactly the levels present in the store,
\* "0" to "L", for every input shape, max_load and max_levels, inputs with an
\* axis of extent 1, max_load = 1 and max_levels = 0 included.
C27_DatasetsMatchLevels ==
    (prog = "stacking" /\ pc = "done") =>
        /\ Len(attrs.datasets) = Len(omz)
        /\ \A i \in 1..Len(attrs.datasets) : attrs.datasets[i].path = i - 1

====
